---- MODULE Spec2Model ----
(***************************************************************************)
(* The English Snowball stemmer (EnglishStemmer.stem) and the stemmer      *)
(* registry (SnowballStemmer) of src/snowball.py, as a state machine.      *)
(*                                                                         *)
(* A Python string is a sequence of one-character strings: "sky" is        *)
(* <<"s", "k", "y">>.  A character outside ASCII is named by its code      *)
(* point: the typographic apostrophes "U2019", "U2018" and "U201B", the    *)
(* capital I with dot above "U0130", the combining dot above "U0307".      *)
(***************************************************************************)
EXTENDS Integers, Sequences, FiniteSets, TLC

VARIABLES
    frames,      \* per call of stem: its position and its local variables
    resolution,  \* outcome of the last SnowballStemmer(language) call
    languages,   \* SnowballStemmer.languages, the supported identifiers
    rv_call      \* the last call of _rv_standard: arguments, branch, result

vars == <<frames, resolution, languages, rv_call>>

(***************************************************************************)
(* Bounds of the model.                                                    *)
(***************************************************************************)
\* Every string over Alphabet of at most MaxLen characters is an input.
MaxLen == 4
\* Number of stem calls that may be in flight at once (SpecConc).
NCalls == 2

Calls == 1..NCalls

(***************************************************************************)
(* Python string primitives.                                               *)
(***************************************************************************)
Min(S) == CHOOSE x \in S : \A y \in S : x <= y

\* s[:-k] for k >= 1
DropLast(s, k) == IF Len(s) > k THEN SubSeq(s, 1, Len(s) - k) ELSE <<>>

\* s[k:]
DropFirst(s, k) == IF Len(s) > k THEN SubSeq(s, k + 1, Len(s)) ELSE <<>>

\* s.endswith(suffix)
EndsWith(s, suffix) ==
    /\ Len(s) >= Len(suffix)
    /\ SubSeq(s, Len(s) - Len(suffix) + 1, Len(s)) = suffix

\* s.startswith(prefix)
StartsWith(s, prefix) ==
    /\ Len(s) >= Len(prefix)
    /\ SubSeq(s, 1, Len(prefix)) = prefix

\* s.endswith(tuple_of_suffixes)
EndsWithAny(s, suffixes) ==
    \E i \in 1..Len(suffixes) : EndsWith(s, suffixes[i])

\* ch in string, for a single character ch
CharIn(ch, string) == \E i \in 1..Len(string) : string[i] = ch

\* s[-k], read only where Len(s) >= k
FromEnd(s, k) == s[Len(s) - k + 1]

\* The suffix a "for suffix in suffixes: if word.endswith(suffix): ... break"
\* loop stops at: the first one, in table order, that the word ends with
\* (<<>> when the loop runs to its end).
FirstSuffix(word, suffixes) ==
    LET I == {i \in 1..Len(suffixes) : EndsWith(word, suffixes[i])}
    IN  IF I = {} THEN <<>> ELSE suffixes[Min(I)]

\* any(letter in vowelstring for letter in s)
HasCharIn(s, string) == \E i \in 1..Len(s) : CharIn(s[i], string)

ascii_lowercase ==
    <<"a", "b", "c", "d", "e", "f", "g", "h", "i", "j", "k", "l", "m",
      "n", "o", "p", "q", "r", "s", "t", "u", "v", "w", "x", "y", "z">>
ascii_uppercase ==
    <<"A", "B", "C", "D", "E", "F", "G", "H", "I", "J", "K", "L", "M",
      "N", "O", "P", "Q", "R", "S", "T", "U", "V", "W", "X", "Y", "Z">>

\* str.lower() of one character: a cased ASCII letter maps to its lower
\* case; U+0130 (capital I with dot above) maps to the two characters
\* "i" and U+0307; any other character of the model maps to itself.
lower_char(ch) ==
    IF \E k \in 1..Len(ascii_uppercase) : ascii_uppercase[k] = ch
    THEN <<ascii_lowercase[CHOOSE k \in 1..Len(ascii_uppercase) :
                               ascii_uppercase[k] = ch]>>
    ELSE IF ch = "U0130" THEN <<"i", "U0307">>
    ELSE <<ch>>

\* str.lower()
RECURSIVE lower(_)
lower(s) == IF s = <<>> THEN <<>> ELSE lower_char(Head(s)) \o lower(Tail(s))

\* str.upper(), used to build inputs in other letter cases.
upper(s) ==
    [i \in 1..Len(s) |->
        IF \E k \in 1..Len(ascii_lowercase) : ascii_lowercase[k] = s[i]
        THEN ascii_uppercase[CHOOSE k \in 1..Len(ascii_lowercase) :
                                 ascii_lowercase[k] = s[i]]
        ELSE s[i]]

\* s.replace(old, new) for single characters old and new
replace(s, old, new) == [i \in 1..Len(s) |-> IF s[i] = old THEN new ELSE s[i]]

(***************************************************************************)
(* The class tables of EnglishStemmer.                                     *)
(***************************************************************************)
vowels == <<"a", "e", "i", "o", "u", "y">>
li_ending == <<"c", "d", "e", "g", "h", "k", "m", "n", "r", "t">>
double_consonants ==
    << <<"b", "b">>, <<"d", "d">>, <<"f", "f">>, <<"g", "g">>,
       <<"m", "m">>, <<"n", "n">>, <<"p", "p">>, <<"r", "r">>,
       <<"t", "t">> >>
step0_suffixes ==
    << <<"'", "s", "'">>, <<"'", "s">>, <<"'">> >>
step1a_suffixes ==
    << <<"s", "s", "e", "s">>, <<"i", "e", "d">>, <<"i", "e", "s">>,
       <<"u", "s">>, <<"s", "s">>, <<"s">> >>
step1b_suffixes ==
    << <<"e", "e", "d", "l", "y">>, <<"i", "n", "g", "l", "y">>,
       <<"e", "d", "l", "y">>, <<"e", "e", "d">>, <<"i", "n", "g">>,
       <<"e", "d">> >>
step2_suffixes ==
    << <<"i", "z", "a", "t", "i", "o", "n">>,
       <<"a", "t", "i", "o", "n", "a", "l">>,
       <<"f", "u", "l", "n", "e", "s", "s">>,
       <<"o", "u", "s", "n", "e", "s", "s">>,
       <<"i", "v", "e", "n", "e", "s", "s">>,
       <<"t", "i", "o", "n", "a", "l">>, <<"b", "i", "l", "i", "t", "i">>,
       <<"l", "e", "s", "s", "l", "i">>, <<"e", "n", "t", "l", "i">>,
       <<"a", "t", "i", "o", "n">>, <<"a", "l", "i", "s", "m">>,
       <<"a", "l", "i", "t", "i">>, <<"o", "u", "s", "l", "i">>,
       <<"i", "v", "i", "t", "i">>, <<"f", "u", "l", "l", "i">>,
       <<"e", "n", "c", "i">>, <<"a", "n", "c", "i">>,
       <<"a", "b", "l", "i">>, <<"i", "z", "e", "r">>,
       <<"a", "t", "o", "r">>, <<"a", "l", "l", "i">>, <<"b", "l", "i">>,
       <<"o", "g", "i">>, <<"l", "i">> >>
step3_suffixes ==
    << <<"a", "t", "i", "o", "n", "a", "l">>,
       <<"t", "i", "o", "n", "a", "l">>, <<"a", "l", "i", "z", "e">>,
       <<"i", "c", "a", "t", "e">>, <<"i", "c", "i", "t", "i">>,
       <<"a", "t", "i", "v", "e">>, <<"i", "c", "a", "l">>,
       <<"n", "e", "s", "s">>, <<"f", "u", "l">> >>
step4_suffixes ==
    << <<"e", "m", "e", "n", "t">>, <<"a", "n", "c", "e">>,
       <<"e", "n", "c", "e">>, <<"a", "b", "l", "e">>,
       <<"i", "b", "l", "e">>, <<"m", "e", "n", "t">>, <<"a", "n", "t">>,
       <<"e", "n", "t">>, <<"i", "s", "m">>, <<"a", "t", "e">>,
       <<"i", "t", "i">>, <<"o", "u", "s">>, <<"i", "v", "e">>,
       <<"i", "z", "e">>, <<"i", "o", "n">>, <<"a", "l">>, <<"e", "r">>,
       <<"i", "c">> >>
step5_suffixes ==
    << <<"e">>, <<"l">> >>
special_words ==
       (<<"s", "k", "i", "s">> :> <<"s", "k", "i">>)
    @@ (<<"s", "k", "i", "e", "s">> :> <<"s", "k", "y">>)
    @@ (<<"d", "y", "i", "n", "g">> :> <<"d", "i", "e">>)
    @@ (<<"l", "y", "i", "n", "g">> :> <<"l", "i", "e">>)
    @@ (<<"t", "y", "i", "n", "g">> :> <<"t", "i", "e">>)
    @@ (<<"i", "d", "l", "y">> :> <<"i", "d", "l">>)
    @@ (<<"g", "e", "n", "t", "l", "y">> :> <<"g", "e", "n", "t", "l">>)
    @@ (<<"u", "g", "l", "y">> :> <<"u", "g", "l", "i">>)
    @@ (<<"e", "a", "r", "l", "y">> :> <<"e", "a", "r", "l", "i">>)
    @@ (<<"o", "n", "l", "y">> :> <<"o", "n", "l", "i">>)
    @@ (<<"s", "i", "n", "g", "l", "y">> :> <<"s", "i", "n", "g", "l">>)
    @@ (<<"s", "k", "y">> :> <<"s", "k", "y">>)
    @@ (<<"n", "e", "w", "s">> :> <<"n", "e", "w", "s">>)
    @@ (<<"h", "o", "w", "e">> :> <<"h", "o", "w", "e">>)
    @@ (<<"a", "t", "l", "a", "s">> :> <<"a", "t", "l", "a", "s">>)
    @@ (<<"c", "o", "s", "m", "o", "s">> :> <<"c", "o", "s", "m", "o", "s">>)
    @@ (<<"b", "i", "a", "s">> :> <<"b", "i", "a", "s">>)
    @@ (<<"a", "n", "d", "e", "s">> :> <<"a", "n", "d", "e", "s">>)
    @@ (<<"i", "n", "n", "i", "n", "g">> :> <<"i", "n", "n", "i", "n", "g">>)
    @@ (<<"i", "n", "n", "i", "n", "g", "s">> :> <<"i", "n", "n", "i", "n", "g">>)
    @@ (<<"o", "u", "t", "i", "n", "g">> :> <<"o", "u", "t", "i", "n", "g">>)
    @@ (<<"o", "u", "t", "i", "n", "g", "s">> :> <<"o", "u", "t", "i", "n", "g">>)
    @@ (<<"c", "a", "n", "n", "i", "n", "g">> :> <<"c", "a", "n", "n", "i", "n", "g">>)
    @@ (<<"c", "a", "n", "n", "i", "n", "g", "s">> :> <<"c", "a", "n", "n", "i", "n", "g">>)
    @@ (<<"h", "e", "r", "r", "i", "n", "g">> :> <<"h", "e", "r", "r", "i", "n", "g">>)
    @@ (<<"h", "e", "r", "r", "i", "n", "g", "s">> :> <<"h", "e", "r", "r", "i", "n", "g">>)
    @@ (<<"e", "a", "r", "r", "i", "n", "g">> :> <<"e", "a", "r", "r", "i", "n", "g">>)
    @@ (<<"e", "a", "r", "r", "i", "n", "g", "s">> :> <<"e", "a", "r", "r", "i", "n", "g">>)
    @@ (<<"p", "r", "o", "c", "e", "e", "d">> :> <<"p", "r", "o", "c", "e", "e", "d">>)
    @@ (<<"p", "r", "o", "c", "e", "e", "d", "s">> :> <<"p", "r", "o", "c", "e", "e", "d">>)
    @@ (<<"p", "r", "o", "c", "e", "e", "d", "e", "d">> :> <<"p", "r", "o", "c", "e", "e", "d">>)
    @@ (<<"p", "r", "o", "c", "e", "e", "d", "i", "n", "g">> :> <<"p", "r", "o", "c", "e", "e", "d">>)
    @@ (<<"e", "x", "c", "e", "e", "d">> :> <<"e", "x", "c", "e", "e", "d">>)
    @@ (<<"e", "x", "c", "e", "e", "d", "s">> :> <<"e", "x", "c", "e", "e", "d">>)
    @@ (<<"e", "x", "c", "e", "e", "d", "e", "d">> :> <<"e", "x", "c", "e", "e", "d">>)
    @@ (<<"e", "x", "c", "e", "e", "d", "i", "n", "g">> :> <<"e", "x", "c", "e", "e", "d">>)
    @@ (<<"s", "u", "c", "c", "e", "e", "d">> :> <<"s", "u", "c", "c", "e", "e", "d">>)
    @@ (<<"s", "u", "c", "c", "e", "e", "d", "s">> :> <<"s", "u", "c", "c", "e", "e", "d">>)
    @@ (<<"s", "u", "c", "c", "e", "e", "d", "e", "d">> :> <<"s", "u", "c", "c", "e", "e", "d">>)
    @@ (<<"s", "u", "c", "c", "e", "e", "d", "i", "n", "g">> :> <<"s", "u", "c", "c", "e", "e", "d">>)

(***************************************************************************)
(* The local variables of one call of EnglishStemmer.stem.                 *)
(*   pc        the next piece of stem to run                               *)
(*   input     the argument the call was made with                         *)
(*   word, r1, r2, step1a_vowel_found, step1b_vowel_found    the locals    *)
(*   executed  the steps 0..5 the call has run so far                      *)
(*   raised    the exception the call ended with, "None" if none           *)
(* At pc = "returned", word is the value returned.                         *)
(***************************************************************************)
IdleFrame ==
    [pc |-> "idle", input |-> <<>>, word |-> <<>>, r1 |-> <<>>, r2 |-> <<>>,
     step1a_vowel_found |-> FALSE, step1b_vowel_found |-> FALSE,
     executed |-> <<>>, raised |-> "None"]

\* EnterStem with the special-word table consulted before the word is
\* lower-cased.
EnterStem_special_before_lower(word) ==
    LET w == lower(word)
        f == [IdleFrame EXCEPT !.input = word, !.word = w]
    IN  IF Len(w) <= 2
        THEN [f EXCEPT !.pc = "returned"]
        ELSE IF word \in DOMAIN special_words
        THEN [f EXCEPT !.pc = "returned", !.word = special_words[word]]
        ELSE [f EXCEPT !.pc = "normalize"]

\* EnterStem with the early return at len(word) <= 1.
EnterStem_min_length_1(word) ==
    LET w == lower(word)
        f == [IdleFrame EXCEPT !.input = word, !.word = w]
    IN  IF Len(w) <= 1
        THEN [f EXCEPT !.pc = "returned"]
        ELSE IF w \in DOMAIN special_words
        THEN [f EXCEPT !.pc = "returned", !.word = special_words[w]]
        ELSE [f EXCEPT !.pc = "normalize"]

\* EnterStem without word.lower().
EnterStem_no_lower(word) ==
    LET f == [IdleFrame EXCEPT !.input = word, !.word = word]
    IN  IF Len(word) <= 2
        THEN [f EXCEPT !.pc = "returned"]
        ELSE IF word \in DOMAIN special_words
        THEN [f EXCEPT !.pc = "returned", !.word = special_words[word]]
        ELSE [f EXCEPT !.pc = "normalize"]

\* word = word.lower(); the two early returns.
EnterStem(word) ==
    LET w == lower(word)
        f == [IdleFrame EXCEPT !.input = word, !.word = w]
    IN  IF Len(w) <= 2
        THEN [f EXCEPT !.pc = "returned"]
        ELSE IF w \in DOMAIN special_words
        THEN [f EXCEPT !.pc = "returned", !.word = special_words[w]]
        ELSE [f EXCEPT !.pc = "normalize"]

\* Map the different apostrophe characters to a single consistent one.
apostrophes(word) ==
    replace(replace(replace(word, "U2019", "'"), "U2018", "'"), "U201B", "'")

\* for i in range(1, len(word)): mark a y that follows a vowel as Y.  The
\* loop reads the word it has already rewritten.
RECURSIVE mark_y_loop(_, _)
mark_y_loop(word, i) ==
    IF i >= Len(word) THEN word
    ELSE mark_y_loop(IF CharIn(word[i], vowels) /\ word[i + 1] = "y"
                     THEN [word EXCEPT ![i + 1] = "Y"]
                     ELSE word,
                     i + 1)

\* The region after the first non-vowel following a vowel, or the null
\* region if there is no such non-vowel.
region_after(s, vs) ==
    LET I == {i \in 2..Len(s) : ~CharIn(s[i], vs) /\ CharIn(s[i - 1], vs)}
    IN  IF I = {} THEN <<>> ELSE DropFirst(s, Min(I))

\* _StandardStemmer._r1r2_standard: <<r1, r2>>
r1r2_standard(word, vs) ==
    LET r1 == region_after(word, vs)
    IN  <<r1, region_after(r1, vs)>>

\* "sub in string" for two Python strings: sub occurs in string as a run of
\* adjacent characters.
IsSubstring(sub, string) ==
    \E i \in 1..(Len(string) - Len(sub) + 1) :
        SubSeq(string, i, i + Len(sub) - 1) = sub

\* word[:k]
Prefix(s, k) == IF Len(s) > k THEN SubSeq(s, 1, k) ELSE s

\* The branch of _rv_standard that runs for word: "short" when the word has
\* fewer than two characters, "second_consonant" when word[1] is not in
\* vowels, "vowel_pair" when word[:2] occurs in the string vowels, and else
\* "third_letter".
rv_branch(word, vs) ==
    IF Len(word) < 2 THEN "short"
    ELSE IF ~CharIn(word[2], vs) THEN "second_consonant"
    ELSE IF IsSubstring(Prefix(word, 2), vs) THEN "vowel_pair"
    ELSE "third_letter"

\* _rv_standard(word, vowels)
rv_standard(word, vs) ==
    LET branch == rv_branch(word, vs)
        V == {i \in 3..Len(word) : CharIn(word[i], vs)}
        N == {i \in 3..Len(word) : ~CharIn(word[i], vs)}
    IN  IF branch = "second_consonant"
        THEN IF V = {} THEN <<>> ELSE DropFirst(word, Min(V))
        ELSE IF branch = "vowel_pair"
        THEN IF N = {} THEN <<>> ELSE DropFirst(word, Min(N))
        ELSE IF branch = "third_letter" THEN DropFirst(word, 3)
        ELSE <<>>

\* No call of _rv_standard so far.
NoRvCall ==
    [called |-> FALSE, word |-> <<>>, vowels |-> <<>>, branch |-> "short",
     rv |-> <<>>]

\* r1r2_english without the gener/commun/arsen override.
r1r2_english_no_override(word) == r1r2_standard(word, vowels)

\* R1 and R2 of the English stemmer: the gener/commun/arsen override, else
\* the standard regions.
r1r2_english(word) ==
    IF \/ StartsWith(word, <<"g", "e", "n", "e", "r">>)
       \/ StartsWith(word, <<"c", "o", "m", "m", "u", "n">>)
       \/ StartsWith(word, <<"a", "r", "s", "e", "n">>)
    THEN LET r1 == IF \/ StartsWith(word, <<"g", "e", "n", "e", "r">>)
                      \/ StartsWith(word, <<"a", "r", "s", "e", "n">>)
                   THEN DropFirst(word, 5)
                   ELSE DropFirst(word, 6)
         IN  <<r1, region_after(r1, vowels)>>
    ELSE r1r2_standard(word, vowels)

\* Everything stem does between the early returns and step 0.
normalize(f) ==
    LET w1 == apostrophes(f.word)
        w2 == IF StartsWith(w1, <<"'">>) THEN DropFirst(w1, 1) ELSE w1
        w3 == IF StartsWith(w2, <<"y">>)
              THEN <<"Y">> \o DropFirst(w2, 1) ELSE w2
        w4 == mark_y_loop(w3, 1)
        rr == r1r2_english(w4)
    IN  [f EXCEPT !.word = w4, !.r1 = rr[1], !.r2 = rr[2],
                  !.step1a_vowel_found = FALSE,
                  !.step1b_vowel_found = FALSE]

\* Cut that forgets R2.
Cut_r2_stale(f, k) ==
    [f EXCEPT !.word = DropLast(@, k), !.r1 = DropLast(@, k)]

\* word = word[:-k]; r1 = r1[:-k]; r2 = r2[:-k]
Cut(f, k) ==
    [f EXCEPT !.word = DropLast(@, k), !.r1 = DropLast(@, k),
              !.r2 = DropLast(@, k)]

\* Replace that empties a short R2 whatever the rule says.
Replace_r2_emptied(f, n, rep, r2_else) ==
    [f EXCEPT !.word = DropLast(@, n) \o rep,
              !.r1 = IF Len(@) >= n THEN DropLast(@, n) \o rep ELSE <<>>,
              !.r2 = IF Len(@) >= n THEN DropLast(@, n) \o rep ELSE <<>>]

\* word = word[:-n] + rep, and the same in r1 and r2 where the region is at
\* least n long; a shorter r1 becomes "", a shorter r2 becomes r2_else.
Replace(f, n, rep, r2_else) ==
    [f EXCEPT !.word = DropLast(@, n) \o rep,
              !.r1 = IF Len(@) >= n THEN DropLast(@, n) \o rep ELSE <<>>,
              !.r2 = IF Len(@) >= n THEN DropLast(@, n) \o rep ELSE r2_else]

\* An index out of range: the call ends with IndexError.
Raise(f) == [f EXCEPT !.raised = "IndexError"]

\* STEP 0
step0(f) ==
    LET suffix == FirstSuffix(f.word, step0_suffixes)
    IN  IF suffix = <<>> THEN f ELSE Cut(f, Len(suffix))

\* STEP 1a
step1a(f) ==
    LET suffix == FirstSuffix(f.word, step1a_suffixes)
    IN  IF suffix = <<"s", "s", "e", "s">> THEN Cut(f, 2)
        ELSE IF suffix \in {<<"i", "e", "d">>, <<"i", "e", "s">>}
        THEN IF Len(DropLast(f.word, Len(suffix))) > 1
             THEN Cut(f, 2) ELSE Cut(f, 1)
        ELSE IF suffix = <<"s">>
        THEN LET g == [f EXCEPT !.step1a_vowel_found =
                           @ \/ HasCharIn(DropLast(f.word, 2), vowels)]
             IN  IF g.step1a_vowel_found THEN Cut(g, 1) ELSE g
        ELSE f

\* The three repairs of step 1b with the "e" after at, bl or iz appended to
\* R1 only when R1 is not empty.
step1b_repair_r1_guarded(f) ==
    IF EndsWithAny(f.word, << <<"a", "t">>, <<"b", "l">>, <<"i", "z">> >>)
    THEN LET word == f.word \o <<"e">>
             r1 == IF Len(f.r1) > 0 THEN f.r1 \o <<"e">> ELSE f.r1
         IN  [f EXCEPT !.word = word, !.r1 = r1,
                       !.r2 = IF Len(word) > 5 \/ Len(r1) >= 3
                              THEN @ \o <<"e">> ELSE @]
    ELSE IF EndsWithAny(f.word, double_consonants) THEN Cut(f, 1)
    ELSE IF \/ /\ f.r1 = <<>>
               /\ Len(f.word) >= 3
               /\ ~CharIn(FromEnd(f.word, 1), vowels)
               /\ ~CharIn(FromEnd(f.word, 1), <<"w", "x", "Y">>)
               /\ CharIn(FromEnd(f.word, 2), vowels)
               /\ ~CharIn(FromEnd(f.word, 3), vowels)
            \/ /\ f.r1 = <<>>
               /\ Len(f.word) = 2
               /\ CharIn(f.word[1], vowels)
               /\ ~CharIn(f.word[2], vowels)
    THEN [f EXCEPT !.word = @ \o <<"e">>,
                   !.r1 = IF Len(@) > 0 THEN @ \o <<"e">> ELSE @,
                   !.r2 = IF Len(@) > 0 THEN @ \o <<"e">> ELSE @]
    ELSE f

\* STEP 1b, after the suffix has been deleted: the three repairs.
step1b_repair(f) ==
    IF EndsWithAny(f.word, << <<"a", "t">>, <<"b", "l">>, <<"i", "z">> >>)
    THEN LET word == f.word \o <<"e">>
             r1 == f.r1 \o <<"e">>
         IN  [f EXCEPT !.word = word, !.r1 = r1,
                       !.r2 = IF Len(word) > 5 \/ Len(r1) >= 3
                              THEN @ \o <<"e">> ELSE @]
    ELSE IF EndsWithAny(f.word, double_consonants) THEN Cut(f, 1)
    ELSE IF \/ /\ f.r1 = <<>>
               /\ Len(f.word) >= 3
               /\ ~CharIn(FromEnd(f.word, 1), vowels)
               /\ ~CharIn(FromEnd(f.word, 1), <<"w", "x", "Y">>)
               /\ CharIn(FromEnd(f.word, 2), vowels)
               /\ ~CharIn(FromEnd(f.word, 3), vowels)
            \/ /\ f.r1 = <<>>
               /\ Len(f.word) = 2
               /\ CharIn(f.word[1], vowels)
               /\ ~CharIn(f.word[2], vowels)
    THEN [f EXCEPT !.word = @ \o <<"e">>,
                   !.r1 = IF Len(@) > 0 THEN @ \o <<"e">> ELSE @,
                   !.r2 = IF Len(@) > 0 THEN @ \o <<"e">> ELSE @]
    ELSE f

\* STEP 1b
step1b(f) ==
    LET suffix == FirstSuffix(f.word, step1b_suffixes)
    IN  IF suffix = <<>> THEN f
        ELSE IF suffix \in {<<"e", "e", "d">>, <<"e", "e", "d", "l", "y">>}
        THEN IF EndsWith(f.r1, suffix)
             THEN Replace(f, Len(suffix), <<"e", "e">>, <<>>)
             ELSE f
        ELSE LET g == [f EXCEPT !.step1b_vowel_found =
                           @ \/ HasCharIn(DropLast(f.word, Len(suffix)),
                                          vowels)]
             IN  IF g.step1b_vowel_found
                 THEN step1b_repair(Cut(g, Len(suffix)))
                 ELSE g

\* STEP 1c
step1c(f) ==
    IF /\ Len(f.word) > 2
       /\ CharIn(FromEnd(f.word, 1), <<"y", "Y">>)
       /\ ~CharIn(FromEnd(f.word, 2), vowels)
    THEN Replace(f, 1, <<"i">>, <<>>)
    ELSE f

\* STEP 2, once "word.endswith(suffix)" and "r1.endswith(suffix)" hold.
step2_rule(f, suffix) ==
    LET n == Len(suffix)
    IN  IF suffix = <<"t", "i", "o", "n", "a", "l">> THEN Cut(f, 2)
        ELSE IF suffix \in {<<"e", "n", "c", "i">>, <<"a", "n", "c", "i">>,
                            <<"a", "b", "l", "i">>}
        THEN Replace(f, 1, <<"e">>, <<>>)
        ELSE IF suffix = <<"e", "n", "t", "l", "i">> THEN Cut(f, 2)
        ELSE IF suffix \in {<<"i", "z", "e", "r">>,
                            <<"i", "z", "a", "t", "i", "o", "n">>}
        THEN Replace(f, n, <<"i", "z", "e">>, <<>>)
        ELSE IF suffix \in {<<"a", "t", "i", "o", "n", "a", "l">>,
                            <<"a", "t", "i", "o", "n">>,
                            <<"a", "t", "o", "r">>}
        THEN Replace(f, n, <<"a", "t", "e">>, <<"e">>)
        ELSE IF suffix \in {<<"a", "l", "i", "s", "m">>,
                            <<"a", "l", "i", "t", "i">>,
                            <<"a", "l", "l", "i">>}
        THEN Replace(f, n, <<"a", "l">>, <<>>)
        ELSE IF suffix = <<"f", "u", "l", "n", "e", "s", "s">> THEN Cut(f, 4)
        ELSE IF suffix \in {<<"o", "u", "s", "l", "i">>,
                            <<"o", "u", "s", "n", "e", "s", "s">>}
        THEN Replace(f, n, <<"o", "u", "s">>, <<>>)
        ELSE IF suffix \in {<<"i", "v", "e", "n", "e", "s", "s">>,
                            <<"i", "v", "i", "t", "i">>}
        THEN Replace(f, n, <<"i", "v", "e">>, <<"e">>)
        ELSE IF suffix \in {<<"b", "i", "l", "i", "t", "i">>,
                            <<"b", "l", "i">>}
        THEN Replace(f, n, <<"b", "l", "e">>, <<>>)
        ELSE IF suffix = <<"o", "g", "i">> /\ Len(f.word) < 4 THEN Raise(f)
        ELSE IF suffix = <<"o", "g", "i">> /\ FromEnd(f.word, 4) = "l"
        THEN Cut(f, 1)
        ELSE IF suffix \in {<<"f", "u", "l", "l", "i">>,
                            <<"l", "e", "s", "s", "l", "i">>}
        THEN Cut(f, 2)
        ELSE IF suffix = <<"l", "i">> /\ Len(f.word) < 3 THEN Raise(f)
        ELSE IF suffix = <<"l", "i">> /\ CharIn(FromEnd(f.word, 3), li_ending)
        THEN Cut(f, 2)
        ELSE f

\* STEP 2
step2(f) ==
    LET suffix == FirstSuffix(f.word, step2_suffixes)
    IN  IF suffix # <<>> /\ EndsWith(f.r1, suffix)
        THEN step2_rule(f, suffix)
        ELSE f

\* STEP 3, once "word.endswith(suffix)" and "r1.endswith(suffix)" hold.
step3_rule(f, suffix) ==
    LET n == Len(suffix)
    IN  IF suffix = <<"t", "i", "o", "n", "a", "l">> THEN Cut(f, 2)
        ELSE IF suffix = <<"a", "t", "i", "o", "n", "a", "l">>
        THEN Replace(f, n, <<"a", "t", "e">>, <<>>)
        ELSE IF suffix = <<"a", "l", "i", "z", "e">> THEN Cut(f, 3)
        ELSE IF suffix \in {<<"i", "c", "a", "t", "e">>,
                            <<"i", "c", "i", "t", "i">>,
                            <<"i", "c", "a", "l">>}
        THEN Replace(f, n, <<"i", "c">>, <<>>)
        ELSE IF suffix \in {<<"f", "u", "l">>, <<"n", "e", "s", "s">>}
        THEN Cut(f, n)
        ELSE IF suffix = <<"a", "t", "i", "v", "e">> /\ EndsWith(f.r2, suffix)
        THEN Cut(f, 5)
        ELSE f

\* STEP 3
step3(f) ==
    LET suffix == FirstSuffix(f.word, step3_suffixes)
    IN  IF suffix # <<>> /\ EndsWith(f.r1, suffix)
        THEN step3_rule(f, suffix)
        ELSE f

\* STEP 4 as it would run if a suffix that the word ends with but R2 does
\* not left the loop running: the first suffix that R2 ends with is taken.
step4_scan_on(f) ==
    LET I == {i \in 1..Len(step4_suffixes) :
                  /\ EndsWith(f.word, step4_suffixes[i])
                  /\ EndsWith(f.r2, step4_suffixes[i])}
        suffix == IF I = {} THEN <<>> ELSE step4_suffixes[Min(I)]
    IN  IF suffix # <<>>
        THEN IF suffix = <<"i", "o", "n">>
             THEN IF Len(f.word) < 4 THEN Raise(f)
                  ELSE IF CharIn(FromEnd(f.word, 4), <<"s", "t">>)
                  THEN Cut(f, 3)
                  ELSE f
             ELSE Cut(f, Len(suffix))
        ELSE f

\* STEP 4
step4(f) ==
    LET suffix == FirstSuffix(f.word, step4_suffixes)
    IN  IF suffix # <<>> /\ EndsWith(f.r2, suffix)
        THEN IF suffix = <<"i", "o", "n">>
             THEN IF Len(f.word) < 4 THEN Raise(f)
                  ELSE IF CharIn(FromEnd(f.word, 4), <<"s", "t">>)
                  THEN Cut(f, 3)
                  ELSE f
             ELSE Cut(f, Len(suffix))
        ELSE f

\* word = word[:-1]: step 5 leaves r1 and r2 as they are.
step5_delete(f) == [f EXCEPT !.word = DropLast(@, 1)]

\* step5 with word[-2] read before r2.endswith("l") is tested.
step5_index_first(f) ==
    IF Len(f.word) < 2 THEN Raise(f)
    ELSE IF FromEnd(f.word, 2) = "l" /\ EndsWith(f.r2, <<"l">>)
    THEN step5_delete(f)
    ELSE IF EndsWith(f.r2, <<"e">>) THEN step5_delete(f)
    ELSE IF EndsWith(f.r1, <<"e">>)
    THEN IF /\ Len(f.word) >= 4
            /\ \/ CharIn(FromEnd(f.word, 2), vowels)
               \/ CharIn(FromEnd(f.word, 2), <<"w", "x", "Y">>)
               \/ ~CharIn(FromEnd(f.word, 3), vowels)
               \/ CharIn(FromEnd(f.word, 4), vowels)
         THEN step5_delete(f)
         ELSE f
    ELSE f

\* STEP 5
step5(f) ==
    IF EndsWith(f.r2, <<"l">>) /\ Len(f.word) < 2 THEN Raise(f)
    ELSE IF EndsWith(f.r2, <<"l">>) /\ FromEnd(f.word, 2) = "l"
    THEN step5_delete(f)
    ELSE IF EndsWith(f.r2, <<"e">>) THEN step5_delete(f)
    ELSE IF EndsWith(f.r1, <<"e">>)
    THEN IF /\ Len(f.word) >= 4
            /\ \/ CharIn(FromEnd(f.word, 2), vowels)
               \/ CharIn(FromEnd(f.word, 2), <<"w", "x", "Y">>)
               \/ ~CharIn(FromEnd(f.word, 3), vowels)
               \/ CharIn(FromEnd(f.word, 4), vowels)
         THEN step5_delete(f)
         ELSE f
    ELSE f

\* return word, with the marker Y left in it
restore_marker_kept(f) == f

\* word = word.replace("Y", "y"); return word
restore(f) == [f EXCEPT !.word = replace(@, "Y", "y")]

\* The steps 0..5, in the order stem runs them.
Phases == <<"step0", "step1a", "step1b", "step1c", "step2", "step3",
            "step4", "step5">>

\* A frame after piece `ran` of stem produced g; `to` is the piece that
\* follows.  An exception ends the call.
Then(g, ran, to) ==
    IF g.raised # "None" THEN [g EXCEPT !.pc = "raised"]
    ELSE [g EXCEPT !.pc = to,
                   !.executed = IF \E i \in 1..Len(Phases) : Phases[i] = ran
                                THEN Append(@, ran) ELSE @]

\* One piece of stem, on a frame whose call is in progress.
Advance(f) ==
    CASE f.pc = "normalize" -> Then(normalize(f), "normalize", "step0")
      [] f.pc = "step0"     -> Then(step0(f), "step0", "step1a")
      [] f.pc = "step1a"    -> Then(step1a(f), "step1a", "step1b")
      [] f.pc = "step1b"    -> Then(step1b(f), "step1b", "step1c")
      [] f.pc = "step1c"    -> Then(step1c(f), "step1c", "step2")
      [] f.pc = "step2"     -> Then(step2(f), "step2", "step3")
      [] f.pc = "step3"     -> Then(step3(f), "step3", "step4")
      [] f.pc = "step4"     -> Then(step4(f), "step4", "step5")
      [] f.pc = "step5"     -> Then(step5(f), "step5", "restore")
      [] f.pc = "restore"   -> Then(restore(f), "restore", "returned")

\* A call run from its entry to its end with nothing else happening.
RECURSIVE Run(_)
Run(f) == IF f.pc \in {"returned", "raised"} THEN f ELSE Run(Advance(f))

\* stem(word) as a function: the value returned, or the exception raised.
stem(word) ==
    LET f == Run(EnterStem(word))
    IN  IF f.pc = "raised" THEN <<f.raised>> ELSE f.word

(***************************************************************************)
(* The registry: SnowballStemmer.  A fixed piece of text that the code     *)
(* only ever concatenates ("Stemmer", the two halves of the error          *)
(* message) is kept as one element of the sequence.                        *)
(***************************************************************************)
\* SnowballStemmer.languages
SnowballStemmer_languages ==
    << <<"d", "a", "n", "i", "s", "h">>, <<"d", "u", "t", "c", "h">>,
       <<"e", "n", "g", "l", "i", "s", "h">>,
       <<"f", "i", "n", "n", "i", "s", "h">>,
       <<"f", "r", "e", "n", "c", "h">>,
       <<"g", "e", "r", "m", "a", "n">>,
       <<"h", "u", "n", "g", "a", "r", "i", "a", "n">>,
       <<"i", "t", "a", "l", "i", "a", "n">>,
       <<"n", "o", "r", "w", "e", "g", "i", "a", "n">>,
       <<"p", "o", "l", "i", "s", "h">>,
       <<"p", "o", "r", "t", "e", "r">>,
       <<"p", "o", "r", "t", "u", "g", "u", "e", "s", "e">>,
       <<"r", "o", "m", "a", "n", "i", "a", "n">>,
       <<"r", "u", "s", "s", "i", "a", "n">>,
       <<"s", "p", "a", "n", "i", "s", "h">>,
       <<"s", "w", "e", "d", "i", "s", "h">> >>

\* The names ending in "Stemmer" that globals() holds: the classes the
\* module defines.
module_globals ==
    { <<"S", "n", "o", "w", "b", "a", "l", "l", "Stemmer">>,
      <<"P", "o", "r", "t", "e", "r", "Stemmer">>,
      <<"E", "n", "g", "l", "i", "s", "h", "Stemmer">> }

EnglishStemmerClass == <<"E", "n", "g", "l", "i", "s", "h", "Stemmer">>
PorterStemmerClass == <<"P", "o", "r", "t", "e", "r", "Stemmer">>

\* str.capitalize(): the first character in upper case, the rest in lower.
capitalize(s) ==
    IF s = <<>> THEN s ELSE upper(SubSeq(s, 1, 1)) \o lower(DropFirst(s, 1))

\* "The language '%s' is not supported." % language
unsupported_message(language) ==
    <<"The language '">> \o language \o <<"' is not supported.">>

\* stemmerclass(): EnglishStemmer() runs _LanguageSpecificStemmer.__init__
\* and returns.  PorterStemmer.__init__ calls PorterStemmer.__init__, and
\* that name is by then the class itself, not the imported base class: the
\* call recurses until RecursionError.
instantiate(language, stemmerclass) ==
    IF stemmerclass = PorterStemmerClass
    THEN [language |-> language, raised |-> "RecursionError",
          message |-> <<>>, stemmer |-> <<>>]
    ELSE [language |-> language, raised |-> "None",
          message |-> <<>>, stemmer |-> stemmerclass]

\* SnowballStemmer_init without the test "language not in self.languages".
SnowballStemmer_init_no_check(language, langs) ==
    LET stemmerclass == capitalize(language) \o <<"Stemmer">>
    IN  IF stemmerclass \notin module_globals
        THEN [language |-> language, raised |-> "KeyError",
              message |-> stemmerclass, stemmer |-> <<>>]
        ELSE instantiate(language, stemmerclass)

\* SnowballStemmer.__init__(language) with self.languages = langs: the
\* exception raised ("None" if none), its message, and the class of the
\* stemmer created (<<>> if none).
SnowballStemmer_init(language, langs) ==
    IF ~(\E i \in 1..Len(langs) : langs[i] = language)
    THEN [language |-> language, raised |-> "ValueError",
          message |-> unsupported_message(language), stemmer |-> <<>>]
    ELSE LET stemmerclass == capitalize(language) \o <<"Stemmer">>
         IN  IF stemmerclass \notin module_globals
             THEN [language |-> language, raised |-> "KeyError",
                   message |-> stemmerclass, stemmer |-> <<>>]
             ELSE instantiate(language, stemmerclass)

\* Nothing resolved yet.
NoResolution ==
    [language |-> <<>>, raised |-> "None", message |-> <<>>, stemmer |-> <<>>]

(***************************************************************************)
(* The inputs: the identifiers passed to SnowballStemmer and the words     *)
(* passed to stem.                                                         *)
(***************************************************************************)
Range(s) == {s[i] : i \in 1..Len(s)}

\* The supported identifiers and some that are not.
Identifiers ==
    Range(SnowballStemmer_languages)
    \cup { <<"k", "l", "i", "n", "g", "o", "n">>,
           <<"E", "n", "g", "l", "i", "s", "h">>,
           <<"s", "n", "o", "w", "b", "a", "l", "l">>,
           <<>> }

Alphabet == {"a", "y", "s", "t", "'", "U0130"}

\* Every string over Alphabet of at most MaxLen characters.
ShortStrings == UNION {[1..n -> Alphabet] : n \in 0..MaxLen}

\* Every suffix of the seven suffix tables.
TableSuffixes ==
    Range(step0_suffixes) \cup Range(step1a_suffixes)
    \cup Range(step1b_suffixes) \cup Range(step2_suffixes)
    \cup Range(step3_suffixes) \cup Range(step4_suffixes)
    \cup Range(step5_suffixes)

Stems ==
    { <<"g", "e", "n", "e", "r">>, <<"c", "o", "m", "m", "u", "n">>,
      <<"r", "e", "l">>, <<"h", "o", "p", "p">>, <<"i", "m", "i", "t">>,
      <<"t", "r", "o", "l">>, <<"y", "a", "y">> }

Tails ==
    { <<>>, <<"s">>, <<"'", "s">>, <<"i", "n", "g">>, <<"l", "y">>,
      <<"e">> }

\* stem + table suffix + tail
DerivedWords ==
    {s \o a \o t : s \in Stems, a \in TableSuffixes \cup {<<>>}, t \in Tails}

\* The worked examples and words that reach the rarer branches.
Words ==
    { <<"r", "e", "l", "a", "t", "i", "o", "n", "a", "l">>,
      <<"c", "a", "r", "e", "s", "s", "e", "s">>,
      <<"p", "o", "n", "i", "e", "s">>,
      <<"g", "e", "n", "e", "r", "a", "l", "i", "z", "a", "t", "i", "o", "n">>,
      <<"r", "u", "n", "n", "i", "n", "g">>,
      <<"a", "r", "s", "e", "n", "i", "c", "a", "l">>,
      <<"t", "i", "e", "s">>, <<"c", "r", "i", "e", "d">>,
      <<"a", "g", "r", "e", "e", "d">>, <<"f", "e", "e", "d">>,
      <<"l", "u", "x", "u", "r", "i", "a", "t", "e", "d">>,
      <<"h", "o", "p", "i", "n", "g">>, <<"s", "i", "n", "g">>,
      <<"a", "n", "a", "l", "o", "g", "i">>,
      <<"a", "p", "o", "l", "o", "g", "y">>,
      <<"q", "u", "i", "c", "k", "l", "y">>,
      <<"a", "d", "o", "p", "t", "i", "o", "n">>,
      <<"o", "p", "i", "n", "i", "o", "n">>,
      <<"c", "o", "n", "t", "r", "o", "l", "l">>,
      <<"r", "e", "p", "l", "a", "c", "e", "m", "e", "n", "t">>,
      <<"f", "o", "r", "m", "a", "t", "i", "v", "e">>,
      <<"c", "a", "t", "U2019", "s">>, <<"U2018", "t", "i", "s">>,
      <<"o", "U201B", "s", "'">>, <<"s", "a", "y", "i", "n", "g">>,
      <<"c", "r", "y">>, <<"b", "y">>, <<"s", "a", "y">>,
      <<"a", "g", "r", "e", "e", "m", "e", "n", "t">>,
      <<"a", "b", "u", "s">>, <<"a", "t", "i", "n", "g">>,
      <<"s", "t", "r", "a", "t", "i", "n", "g">>,
      <<"s", "i", "z", "e", "d">>, <<"a", "b", "l", "e", "d">> }

\* The keys of the special-word table.
SpecialWords == DOMAIN special_words

\* A word as given, in upper case, and capitalized.
CaseVariants(W) == W \cup {upper(w) : w \in W} \cup {capitalize(w) : w \in W}

\* The words passed to stem.
Inputs ==
    ShortStrings \cup DerivedWords \cup CaseVariants(Words \cup SpecialWords)

\* The words passed to stem by calls that run concurrently.
ConcInputs ==
    { <<"s", "i", "n", "g">>, <<"h", "o", "p", "p", "i", "n", "g">>,
      <<"S", "K", "Y">>, <<"c", "a", "t", "s">> }

\* The words passed to _rv_standard: every string over two vowels that are
\* adjacent in the vowel strings, one that is adjacent to neither, and a
\* consonant.
RvAlphabet == {"a", "e", "o", "b"}

RvWords == UNION {[1..n -> RvAlphabet] : n \in 0..MaxLen}

\* The vowel strings passed to _rv_standard.
RvVowelStrings == {vowels, <<"a", "e", "i", "o", "u">>}

(***************************************************************************)
(* The state machine.                                                      *)
(***************************************************************************)
Init ==
    /\ frames = [c \in Calls |-> IdleFrame]
    /\ resolution = NoResolution
    /\ languages = SnowballStemmer_languages
    /\ rv_call = NoRvCall

\* Store with the two vowel flags kept on the stemmer instance, which the
\* calls share.
Store_shared_flags(c, f) ==
    [d \in Calls |->
        IF d = c THEN f
        ELSE [frames[d] EXCEPT
                 !.step1a_vowel_found = f.step1a_vowel_found,
                 !.step1b_vowel_found = f.step1b_vowel_found]]

\* The locals of a call are its own: a step of call c writes frame c.
Store(c, f) == [frames EXCEPT ![c] = f]

NoCallInProgress == \A c \in Calls : frames[c].pc = "idle"

\* SnowballStemmer(language).  The driver resolves the language between
\* calls of stem, not during one.
Resolve ==
    /\ NoCallInProgress
    /\ \E language \in Identifiers :
           resolution' = SnowballStemmer_init(language, languages)
    /\ UNCHANGED <<frames, languages, rv_call>>

\* stemmer.stem(word) on the English stemmer the registry returned: the
\* call starts, lower-cases the word and takes an early return or goes on.
Enter(c, word) ==
    /\ resolution.stemmer = EnglishStemmerClass
    /\ frames[c].pc = "idle"
    /\ frames' = Store(c, EnterStem(word))
    /\ UNCHANGED <<resolution, languages, rv_call>>

\* A driver with one thread of control: one call at a time.
SeqCall ==
    /\ NoCallInProgress
    /\ \E word \in Inputs : Enter(1, word)

\* Calls from several threads: call c starts whatever the others do.
ConcCall(c) == \E word \in ConcInputs : Enter(c, word)

\* The apostrophes, the Y marking, the flags and the regions.
Normalize(c) ==
    /\ frames[c].pc = "normalize"
    /\ frames' = Store(c, Advance(frames[c]))
    /\ UNCHANGED <<resolution, languages, rv_call>>

Step0(c) ==
    /\ frames[c].pc = "step0"
    /\ frames' = Store(c, Advance(frames[c]))
    /\ UNCHANGED <<resolution, languages, rv_call>>

Step1a(c) ==
    /\ frames[c].pc = "step1a"
    /\ frames' = Store(c, Advance(frames[c]))
    /\ UNCHANGED <<resolution, languages, rv_call>>

Step1b(c) ==
    /\ frames[c].pc = "step1b"
    /\ frames' = Store(c, Advance(frames[c]))
    /\ UNCHANGED <<resolution, languages, rv_call>>

Step1c(c) ==
    /\ frames[c].pc = "step1c"
    /\ frames' = Store(c, Advance(frames[c]))
    /\ UNCHANGED <<resolution, languages, rv_call>>

Step2(c) ==
    /\ frames[c].pc = "step2"
    /\ frames' = Store(c, Advance(frames[c]))
    /\ UNCHANGED <<resolution, languages, rv_call>>

Step3(c) ==
    /\ frames[c].pc = "step3"
    /\ frames' = Store(c, Advance(frames[c]))
    /\ UNCHANGED <<resolution, languages, rv_call>>

Step4(c) ==
    /\ frames[c].pc = "step4"
    /\ frames' = Store(c, Advance(frames[c]))
    /\ UNCHANGED <<resolution, languages, rv_call>>

Step5(c) ==
    /\ frames[c].pc = "step5"
    /\ frames' = Store(c, Advance(frames[c]))
    /\ UNCHANGED <<resolution, languages, rv_call>>

\* The Y marking undone, and the return.
Return(c) ==
    /\ frames[c].pc = "restore"
    /\ frames' = Store(c, Advance(frames[c]))
    /\ UNCHANGED <<resolution, languages, rv_call>>

\* The caller has the result (or the exception): the frame is gone.
Discard(c) ==
    /\ frames[c].pc \in {"returned", "raised"}
    /\ frames' = Store(c, IdleFrame)
    /\ UNCHANGED <<resolution, languages, rv_call>>

Steps(c) ==
    \/ Normalize(c)
    \/ Step0(c)
    \/ Step1a(c)
    \/ Step1b(c)
    \/ Step1c(c)
    \/ Step2(c)
    \/ Step3(c)
    \/ Step4(c)
    \/ Step5(c)
    \/ Return(c)
    \/ Discard(c)

\* One thread of control.
Next ==
    \/ Resolve
    \/ SeqCall
    \/ \E c \in Calls : Steps(c)

Spec == Init /\ [][Next]_vars

\* Up to NCalls calls of stem in flight on the same stemmer instance.
NextConc ==
    \/ Resolve
    \/ \E c \in Calls : ConcCall(c)
    \/ \E c \in Calls : Steps(c)

SpecConc == Init /\ [][NextConc]_vars

\* One call of _rv_standard(word, vowels).
RvStandard ==
    \E word \in RvWords, vs \in RvVowelStrings :
        /\ rv_call' = [called |-> TRUE, word |-> word, vowels |-> vs,
                       branch |-> rv_branch(word, vs),
                       rv |-> rv_standard(word, vs)]
        /\ UNCHANGED <<frames, resolution, languages>>

NextRv == RvStandard

\* The calls of _rv_standard alone.
SpecRv == Init /\ [][NextRv]_vars

(***************************************************************************)
(* The claims.                                                             *)
(***************************************************************************)
Relational == <<"r", "e", "l", "a", "t", "i", "o", "n", "a", "l">>
Caresses == <<"c", "a", "r", "e", "s", "s", "e", "s">>
Ponies == <<"p", "o", "n", "i", "e", "s">>
Generalization ==
    <<"g", "e", "n", "e", "r", "a", "l", "i", "z", "a", "t", "i", "o", "n">>
Klingon == <<"k", "l", "i", "n", "g", "o", "n">>

\* len(R2) <= len(R1) <= len(word), R2 a literal suffix of R1, R1 a literal
\* suffix of the word.
RegionInvariant(f) ==
    /\ Len(f.r2) <= Len(f.r1)
    /\ Len(f.r1) <= Len(f.word)
    /\ EndsWith(f.r1, f.r2)
    /\ EndsWith(f.word, f.r1)

Characters ==
    Range(ascii_lowercase) \cup Range(ascii_uppercase)
    \cup {"'", "U2019", "U2018", "U201B", "U0130", "U0307"}

\* C2: stem is total: no call ends with an exception (no index of steps 2,
\* 4 and 5 is out of range), and what a call returns is a string.
C2_StemIsTotal ==
    \A c \in Calls :
        /\ frames[c].raised = "None"
        /\ frames[c].pc # "raised"
        /\ frames[c].pc = "returned"
               => \A i \in 1..Len(frames[c].word) :
                      frames[c].word[i] \in Characters

\* C2 witness: a call on a word of three or more characters that had
\* nothing left of it when it ran steps 1a to 5, and returned "".
C2_Witness ==
    \E c \in Calls :
        /\ frames[c].pc = "returned"
        /\ Len(frames[c].input) >= 3
        /\ frames[c].executed = Phases
        /\ frames[c].word = <<>>

\* C3 as stated: stem("relational") == "relate".
C3_RelationalIsRelate ==
    \A c \in Calls :
        frames[c].pc = "returned" /\ frames[c].input = Relational
            => frames[c].word = <<"r", "e", "l", "a", "t", "e">>

\* C3 as amended: stem("relational") == "relat": step 2 rewrites ational
\* to ate and sets R2 to "e", and step 5 deletes the e that ends R2.
C3_RelationalIsRelat ==
    \A c \in Calls :
        frames[c].pc = "returned" /\ frames[c].input = Relational
            => frames[c].word = <<"r", "e", "l", "a", "t">>

\* C3 witness: stem("relational") has returned.
C3_Witness ==
    \E c \in Calls :
        /\ frames[c].pc = "returned"
        /\ frames[c].input = Relational
        /\ frames[c].executed = Phases

\* C4: for every special word, in any letter case, stem returns exactly
\* the table's entry for the lower-cased word, and runs none of the steps
\* 0 to 5.
C4_SpecialWords ==
    \A c \in Calls :
        /\ frames[c].pc = "returned"
        /\ lower(frames[c].input) \in DOMAIN special_words
        => /\ frames[c].word = special_words[lower(frames[c].input)]
           /\ frames[c].executed = <<>>

\* C4 witness: stem("SKIES") has returned "sky".
C4_Witness ==
    \E c \in Calls :
        /\ frames[c].pc = "returned"
        /\ frames[c].input = <<"S", "K", "I", "E", "S">>
        /\ frames[c].word = <<"s", "k", "y">>

\* C5 as stated: for every word of length <= 2, the empty string
\* included, stem(word) == lowercase(word), and none of the steps has run.
C5_LengthFloor ==
    \A c \in Calls :
        frames[c].pc = "returned" /\ Len(frames[c].input) <= 2
            => /\ frames[c].word = lower(frames[c].input)
               /\ frames[c].executed = <<>>

\* C5 as amended: for every word whose lower-cased form has length <= 2,
\* stem(word) == lowercase(word), and none of the steps has run.  (The
\* length is tested after word.lower(), which turns U+0130 into two
\* characters.)
C5_LengthFloorAfterLower ==
    \A c \in Calls :
        frames[c].pc = "returned" /\ Len(lower(frames[c].input)) <= 2
            => /\ frames[c].word = lower(frames[c].input)
               /\ frames[c].executed = <<>>

\* C5 witness: stem("'s") has returned "'s", apostrophe and all.
C5_Witness ==
    \E c \in Calls :
        /\ frames[c].pc = "returned"
        /\ frames[c].input = <<"'", "s">>
        /\ frames[c].word = <<"'", "s">>

\* C6: resolving any of the 16 identifiers of SnowballStemmer.languages
\* succeeds and yields a stemmer; resolution fails only for identifiers
\* outside that set.
C6_SupportedResolves ==
    /\ resolution.language \in Range(languages) /\ resolution # NoResolution
           => resolution.raised = "None" /\ resolution.stemmer # <<>>
    /\ resolution.raised # "None"
           => resolution.language \notin Range(languages)

\* C7: resolving an identifier outside the supported set fails with
\* ValueError, whose message names the identifier; no stemmer is created;
\* the supported set is unchanged, and the resolution that follows a failed
\* one has the outcome it has from the initial state.
C7_UnsupportedFails ==
    /\ [](/\ languages = SnowballStemmer_languages
          /\ resolution # NoResolution
             /\ resolution.language \notin Range(SnowballStemmer_languages)
             => /\ resolution.raised = "ValueError"
                /\ resolution.message =
                       <<"The language '">> \o resolution.language
                       \o <<"' is not supported.">>
                /\ resolution.stemmer = <<>>)
    /\ [][resolution.raised = "ValueError" /\ resolution' # resolution
              => /\ resolution'.language = <<"e", "n", "g", "l", "i", "s", "h">>
                     => resolution'.stemmer = EnglishStemmerClass
                 /\ resolution'.language = Klingon
                     => resolution'.raised = "ValueError"]_vars

\* C7 witness: SnowballStemmer("klingon") has failed with ValueError.
C7_Witness ==
    /\ resolution.language = Klingon
    /\ resolution.raised = "ValueError"

\* C8: stem("caresses") == "caress", stem("ponies") == "poni" and
\* stem("generalization") == "general".
C8_WorkedExamples ==
    \A c \in Calls :
        frames[c].pc = "returned"
            => /\ frames[c].input = Caresses
                   => frames[c].word = <<"c", "a", "r", "e", "s", "s">>
               /\ frames[c].input = Ponies
                   => frames[c].word = <<"p", "o", "n", "i">>
               /\ frames[c].input = Generalization
                   => frames[c].word = <<"g", "e", "n", "e", "r", "a", "l">>

\* C8 witness: stem("generalization") has returned, every step run.
C8_Witness ==
    \E c \in Calls :
        /\ frames[c].pc = "returned"
        /\ frames[c].input = Generalization
        /\ frames[c].executed = Phases

\* C9: however the steps of concurrent calls of stem interleave, each call
\* returns what it returns when run alone, which depends on its input only
\* (so repeated calls with the same input return the same output).
C9_InterleavingIsInvisible ==
    \A c \in Calls :
        frames[c].pc \in {"returned", "raised"}
            => /\ frames[c].pc = "returned"
               /\ frames[c].word = stem(frames[c].input)

\* C9 witness: two calls in flight at once, one returned and the other
\* between its steps 1b and 1c.
C9_Witness ==
    \E c, d \in Calls :
        /\ c # d
        /\ frames[c].pc = "returned"
        /\ frames[c].input = <<"h", "o", "p", "p", "i", "n", "g">>
        /\ frames[d].pc = "step1c"
        /\ frames[d].input = <<"s", "i", "n", "g">>

\* C10: stem(w) == stem(lowercase(w)) for every word w.
C10_CaseInsensitive ==
    \A c \in Calls :
        frames[c].pc = "returned"
            => frames[c].word = stem(lower(frames[c].input))

\* C10 witness: stem("RUNNING") has returned "run".
C10_Witness ==
    \E c \in Calls :
        /\ frames[c].pc = "returned"
        /\ frames[c].input = <<"R", "U", "N", "N", "I", "N", "G">>
        /\ frames[c].word = <<"r", "u", "n">>

\* The phases that scan a suffix table, and the table each one scans.
SuffixPhases == {"step1a", "step1b", "step2", "step3", "step4"}

PhaseTable(pc) ==
    CASE pc = "step1a" -> step1a_suffixes
      [] pc = "step1b" -> step1b_suffixes
      [] pc = "step2" -> step2_suffixes
      [] pc = "step3" -> step3_suffixes
      [] pc = "step4" -> step4_suffixes

\* The two suffixes of step 1a whose rule leaves the word as it is.
step1a_kept == {<<"u", "s">>, <<"s", "s">>}

\* The condition that the rule of a suffix the word ends with puts on its
\* action in phase pc.
RuleCondition(f, pc, suffix) ==
    CASE pc = "step1a" ->
             suffix = <<"s">> => HasCharIn(DropLast(f.word, 2), vowels)
      [] pc = "step1b" ->
             IF suffix \in {<<"e", "e", "d">>, <<"e", "e", "d", "l", "y">>}
             THEN EndsWith(f.r1, suffix)
             ELSE HasCharIn(DropLast(f.word, Len(suffix)), vowels)
      [] pc = "step2" ->
             /\ EndsWith(f.r1, suffix)
             /\ suffix = <<"o", "g", "i">>
                    => Len(f.word) >= 4 /\ FromEnd(f.word, 4) = "l"
             /\ suffix = <<"l", "i">>
                    => /\ Len(f.word) >= 3
                       /\ CharIn(FromEnd(f.word, 3), li_ending)
      [] pc = "step3" ->
             /\ EndsWith(f.r1, suffix)
             /\ suffix = <<"a", "t", "i", "v", "e">> => EndsWith(f.r2, suffix)
      [] pc = "step4" ->
             /\ EndsWith(f.r2, suffix)
             /\ suffix = <<"i", "o", "n">>
                    => /\ Len(f.word) >= 4
                       /\ CharIn(FromEnd(f.word, 4), <<"s", "t">>)

\* The places in the table of phase pc of the suffixes the word ends with.
TailMatches(f, pc) ==
    {i \in 1..Len(PhaseTable(pc)) : EndsWith(f.word, PhaseTable(pc)[i])}

\* C11 as stated: in each of the steps 1a, 1b, 2, 3 and 4 the scan passes
\* over a rule whose suffix ends the word but whose condition fails, so that
\* whenever some rule of the table has both its suffix at the end of the word
\* and its condition true, the first such rule is applied: the step edits the
\* word, unless that rule is one of the two of step 1a that keep the word.
C11_ScanPassesFailedConditions ==
    [][\A c \in Calls :
          (frames[c].pc \in SuffixPhases /\ frames'[c].pc # frames[c].pc)
              => LET f == frames[c]
                     pc == f.pc
                     I == {i \in TailMatches(f, pc) :
                               RuleCondition(f, pc, PhaseTable(pc)[i])}
                 IN  (I # {} /\ PhaseTable(pc)[Min(I)] \notin step1a_kept)
                         => frames'[c].word # f.word]_vars

\* C11 amended: in each of the steps 1a, 1b, 2, 3 and 4 the scan stops at the
\* first suffix, in table order, that ends the word, whatever its condition:
\* the step edits the word exactly when that first suffix exists, its own
\* condition holds and it is not one of the two of step 1a that keep the
\* word, and otherwise leaves word, R1 and R2 as they were, even when a later
\* suffix of the table ends the word and has its condition true.
C11_ScanStopsAtFirstTailMatch ==
    [][\A c \in Calls :
          (frames[c].pc \in SuffixPhases /\ frames'[c].pc # frames[c].pc)
              => LET f == frames[c]
                     pc == f.pc
                     J == TailMatches(f, pc)
                     acts == /\ J # {}
                             /\ RuleCondition(f, pc, PhaseTable(pc)[Min(J)])
                             /\ PhaseTable(pc)[Min(J)] \notin step1a_kept
                 IN  /\ acts <=> frames'[c].word # f.word
                     /\ ~acts => /\ frames'[c].r1 = f.r1
                                 /\ frames'[c].r2 = f.r2]_vars

\* C11 witness: step 4 has run on a word that ends with "ement", whose R2
\* ends with the later suffix "ent" but not with "ement", and the word still
\* ends with "ement".
C11_Witness ==
    \E c \in Calls :
        /\ frames[c].pc = "step5"
        /\ EndsWith(frames[c].word, <<"e", "m", "e", "n", "t">>)
        /\ EndsWith(frames[c].r2, <<"e", "n", "t">>)
        /\ ~EndsWith(frames[c].r2, <<"e", "m", "e", "n", "t">>)

\* The region after the first character of word, at or after the third, that
\* is not a vowel; empty if there is none.
AfterNextConsonant(word, vs) ==
    LET N == {i \in 3..Len(word) : ~CharIn(word[i], vs)}
    IN  IF N = {} THEN <<>> ELSE DropFirst(word, Min(N))

\* C12: for every word of at least two characters whose first two characters
\* are each a vowel, _rv_standard returns the region after the first
\* non-vowel found from index 2 on (empty if there is none), and the branch
\* rv = word[3:] runs only when the first character is not a vowel and the
\* second is.
C12_TwoVowelsThenNextConsonant ==
    rv_call.called =>
        LET word == rv_call.word
            vs == rv_call.vowels
        IN  /\ (Len(word) >= 2 /\ CharIn(word[1], vs) /\ CharIn(word[2], vs))
                    => rv_call.rv = AfterNextConsonant(word, vs)
            /\ rv_call.branch = "third_letter"
                    => ~CharIn(word[1], vs) /\ CharIn(word[2], vs)

\* The suffix that step 1b deletes from the word of frame f before its
\* repairs: the first suffix of the table that ends the word, when it is none
\* of eed and eedly; <<>> when step 1b deletes nothing.
step1b_deleted(f) ==
    LET J == TailMatches(f, "step1b")
        suffix == step1b_suffixes[Min(J)]
    IN  IF J = {} THEN <<>>
        ELSE IF suffix \in {<<"e", "e", "d">>, <<"e", "e", "d", "l", "y">>}
        THEN <<>>
        ELSE IF RuleCondition(f, "step1b", suffix) THEN suffix
        ELSE <<>>

\* Step 1b, taking frame f to frame g, has appended "e" to what the deletion
\* of its suffix left of the word.
step1b_appended(f, g) ==
    /\ step1b_deleted(f) # <<>>
    /\ g.word = DropLast(f.word, Len(step1b_deleted(f))) \o <<"e">>

\* The "e" was appended after at, bl or iz (and else to a short word).
AfterAtBlIz(f) ==
    EndsWithAny(DropLast(f.word, Len(step1b_deleted(f))),
                << <<"a", "t">>, <<"b", "l">>, <<"i", "z">> >>)

\* C13 as stated: when step 1b appends "e" to the word, R1 gets the "e" only
\* if it was not empty before the append, R2 gets it only if it was not
\* empty or the length threshold of the at/bl/iz repair held, and a region
\* that was empty and met no threshold stays empty.
C13_AppendSkipsEmptyRegions ==
    [][\A c \in Calls :
          (frames[c].pc = "step1b" /\ frames'[c].pc = "step1c"
               /\ step1b_appended(frames[c], frames'[c]))
              => LET f == frames[c]
                     g == frames'[c]
                     n == Len(step1b_deleted(f))
                     r1 == DropLast(f.r1, n)
                     r2 == DropLast(f.r2, n)
                     threshold == /\ AfterAtBlIz(f)
                                  /\ Len(g.word) > 5 \/ Len(g.r1) >= 3
                 IN  /\ g.r1 \in {r1, r1 \o <<"e">>}
                     /\ g.r1 = r1 \o <<"e">> => r1 # <<>>
                     /\ r1 = <<>> => g.r1 = <<>>
                     /\ g.r2 \in {r2, r2 \o <<"e">>}
                     /\ g.r2 = r2 \o <<"e">> => (r2 # <<>> \/ threshold)
                     /\ (r2 = <<>> /\ ~threshold) => g.r2 = <<>>]_vars

\* C13 amended: when step 1b appends "e" after at, bl or iz, R1 always gets
\* the "e", also when it was empty, and R2 gets it exactly when the word is
\* then longer than 5 or R1 is then at least 3 long, which is the case
\* whenever R2 was not empty; when step 1b appends "e" to a short word, R1
\* and R2 were empty and stay empty.
C13_AppendExtendsR1AfterAtBlIz ==
    [][\A c \in Calls :
          (frames[c].pc = "step1b" /\ frames'[c].pc = "step1c"
               /\ step1b_appended(frames[c], frames'[c]))
              => LET f == frames[c]
                     g == frames'[c]
                     n == Len(step1b_deleted(f))
                     r1 == DropLast(f.r1, n)
                     r2 == DropLast(f.r2, n)
                     threshold == Len(g.word) > 5 \/ Len(g.r1) >= 3
                 IN  IF AfterAtBlIz(f)
                     THEN /\ g.r1 = r1 \o <<"e">>
                          /\ g.r2 = IF threshold THEN r2 \o <<"e">> ELSE r2
                          /\ r2 # <<>> => threshold
                     ELSE /\ r1 = <<>> /\ r2 = <<>>
                          /\ g.r1 = <<>> /\ g.r2 = <<>>]_vars

\* C13 witness: step 1b has turned "ating" into "ate"; R1 was empty once
\* "ing" was deleted and is now "e", and R2 is empty.
C13_Witness ==
    \E c \in Calls :
        /\ frames[c].pc = "step1c"
        /\ frames[c].input = <<"a", "t", "i", "n", "g">>
        /\ frames[c].word = <<"a", "t", "e">>
        /\ frames[c].r1 = <<"e">>
        /\ frames[c].r2 = <<>>

\* C14 as stated: stem never returns a word longer than its input, and the
\* returned word has no "Y" in it.
C14_NeverLongerThanInput ==
    \A c \in Calls :
        frames[c].pc = "returned"
            => /\ Len(frames[c].word) <= Len(frames[c].input)
               /\ ~CharIn("Y", frames[c].word)

\* C14 amended: stem never returns a word longer than the lower-cased input
\* (which is longer than the input only where it has U+0130), no step from
\* the apostrophe handling to the marker removal lengthens the word, and the
\* returned word has no "Y" in it.
C14_NeverLongerThanLowered ==
    /\ [](\A c \in Calls :
              frames[c].pc = "returned"
                  => /\ Len(frames[c].word) <= Len(lower(frames[c].input))
                     /\ ~CharIn("Y", frames[c].word))
    /\ [][\A c \in Calls :
              frames[c].pc \notin {"idle", "returned", "raised"}
                  => Len(frames'[c].word) <= Len(frames[c].word)]_vars

\* C14 witness: stem("SAYING") has returned "say": the y was marked "Y"
\* after a vowel, "ing" was deleted, and the marker was turned back.
C14_Witness ==
    \E c \in Calls :
        /\ frames[c].pc = "returned"
        /\ frames[c].executed = Phases
        /\ frames[c].input = <<"S", "A", "Y", "I", "N", "G">>
        /\ frames[c].word = <<"s", "a", "y">>

====
